---- MODULE Spec2Model ----
(***************************************************************************)
(* The quiz-chain worker of src/aap/worker.py (solve_quiz_chain) with the   *)
(* helpers of src/aap/utils.py, as a state machine.                         *)
(*                                                                          *)
(* Text that a regular expression of the code inspects character by         *)
(* character (the visible page text, table cells, column names) is a        *)
(* sequence of one-character strings.  URLs, e-mail addresses and secrets   *)
(* are compared only as wholes by the code and are plain strings.           *)
(* Python floats are integers here: every number of the catalogue is        *)
(* integral, so float sums are exact.                                       *)
(***************************************************************************)
EXTENDS Integers, Sequences, FiniteSets, TLC

(***************************************************************************)
(* Characters                                                               *)
(***************************************************************************)
UpperLetters == <<"A","B","C","D","E","F","G","H","I","J","K","L","M",
                  "N","O","P","Q","R","S","T","U","V","W","X","Y","Z">>

LowerLetters == <<"a","b","c","d","e","f","g","h","i","j","k","l","m",
                  "n","o","p","q","r","s","t","u","v","w","x","y","z">>

Digits == <<"0","1","2","3","4","5","6","7","8","9">>

IsUpper(c) == \E i \in 1..26 : UpperLetters[i] = c

IsLower(c) == \E i \in 1..26 : LowerLetters[i] = c

IsDigit(c) == \E i \in 1..10 : Digits[i] = c

DigitVal(c) == (CHOOSE i \in 1..10 : Digits[i] = c) - 1

\* str.lower() on one character
LowerChar(c) ==
    IF IsUpper(c) THEN LowerLetters[CHOOSE i \in 1..26 : UpperLetters[i] = c] ELSE c

\* str.lower()
Lower(s) == [i \in 1..Len(s) |-> LowerChar(s[i])]

IsSpace(c) == c \in {" ", "\n", "\r", "\t"}

RECURSIVE LStrip(_)
LStrip(s) == IF s # <<>> /\ IsSpace(Head(s)) THEN LStrip(Tail(s)) ELSE s

RECURSIVE RStrip(_)
RStrip(s) ==
    IF s # <<>> /\ IsSpace(s[Len(s)]) THEN RStrip(SubSeq(s, 1, Len(s) - 1)) ELSE s

\* str.strip()
Strip(s) == RStrip(LStrip(s))

\* the pattern word w occurs in t at position i; ignoreCase as under re.I
MatchesAt(t, i, w, ignoreCase) ==
    /\ i >= 1
    /\ i + Len(w) - 1 <= Len(t)
    /\ \A k \in 1..Len(w) :
          IF ignoreCase THEN LowerChar(t[i + k - 1]) = LowerChar(w[k])
          ELSE t[i + k - 1] = w[k]

\* w in t
Contains(t, w) == \E i \in 1..Len(t) : MatchesAt(t, i, w, FALSE)

SetMax(S) == CHOOSE x \in S : \A y \in S : y <= x

SetMin(S) == CHOOSE x \in S : \A y \in S : x <= y

RECURSIVE SumSeq(_)
\* sum(nums)
SumSeq(s) == IF s = <<>> THEN 0 ELSE Head(s) + SumSeq(Tail(s))

(***************************************************************************)
(* utils.extract_numbers: number_re = -?\d+(?:\.\d+)? over the text,        *)
(* leftmost non-overlapping tokens, each converted with float().           *)
(***************************************************************************)
RECURSIVE DigitsEnd(_, _)
\* the last index of the run of digits that starts at i
DigitsEnd(t, i) ==
    IF i + 1 <= Len(t) /\ IsDigit(t[i + 1]) THEN DigitsEnd(t, i + 1) ELSE i

RECURSIVE DigitsValue(_, _, _, _)
DigitsValue(t, i, j, acc) ==
    IF i > j THEN acc ELSE DigitsValue(t, i + 1, j, acc * 10 + DigitVal(t[i]))

\* the token starting at i, if any: [ok, end, val]
NumberTokenAt(t, i) ==
    LET neg   == t[i] = "-" /\ i + 1 <= Len(t) /\ IsDigit(t[i + 1])
        d0    == IF neg THEN i + 1 ELSE i
        ok    == d0 <= Len(t) /\ IsDigit(t[d0])
        d1    == DigitsEnd(t, d0)
        frac  == d1 + 2 <= Len(t) /\ t[d1 + 1] = "." /\ IsDigit(t[d1 + 2])
        e     == IF frac THEN DigitsEnd(t, d1 + 2) ELSE d1
        whole == DigitsValue(t, d0, d1, 0)
    IN  IF ok
        THEN [ok |-> TRUE, end |-> e, val |-> IF neg THEN 0 - whole ELSE whole]
        ELSE [ok |-> FALSE, end |-> i, val |-> 0]

\* positions from i on at which a token starts
TokenStarts(t, i) ==
    {k \in i..Len(t) :
        \/ IsDigit(t[k])
        \/ (t[k] = "-" /\ k + 1 <= Len(t) /\ IsDigit(t[k + 1]))}

RECURSIVE NumbersFrom(_, _)
\* the tokens finditer gives from position i on: the leftmost, then those
\* after its end
NumbersFrom(t, i) ==
    IF TokenStarts(t, i) = {} THEN <<>>
    ELSE LET tok == NumberTokenAt(t, SetMin(TokenStarts(t, i)))
         IN  <<tok.val>> \o NumbersFrom(t, tok.end + 1)

extract_numbers(text) == NumbersFrom(text, 1)

(***************************************************************************)
(* worker.py line 80: re.search(r"sum of the[^\n\r]*['\"]?([A-Za-z0-9 _-]+) *)
(* ['\"]? column", page_plain, re.I).  The search takes the leftmost start; *)
(* at that start the backtracking matcher prefers, in this order, the       *)
(* longest [^\n\r]* run, taking the optional opening quote, the longest     *)
(* group, taking the optional closing quote.                                *)
(***************************************************************************)
SumOfWord == <<"s","u","m"," ","o","f">>

WhatIsTheSum == <<"w","h","a","t"," ","i","s"," ","t","h","e"," ","s","u","m">>

SumOfThe == <<"s","u","m"," ","o","f"," ","t","h","e">>

ColumnWord == <<" ","c","o","l","u","m","n">>

IsQuote(c) == c \in {"'", "\""}

\* [A-Za-z0-9 _-]
InNameClass(c) == IsUpper(c) \/ IsLower(c) \/ IsDigit(c) \/ c \in {" ", "_", "-"}

\* positions at which " column" matches
ColumnStarts(t) == {k \in 1..Len(t) : MatchesAt(t, k, ColumnWord, TRUE)}

\* the last index of the run of name characters starting at b (b - 1 when none)
NameRunEnd(t, b) ==
    LET stops == {k \in b..Len(t) : ~InNameClass(t[k])}
    IN  IF stops = {} THEN Len(t) ELSE SetMin(stops) - 1

\* ends c of a group starting at b after which ['\"]? column matches, cs being
\* ColumnStarts(t)
GroupEnds(t, b, cs) ==
    {c \in b..NameRunEnd(t, b) :
        \/ c + 1 \in cs
        \/ (c + 1 <= Len(t) /\ IsQuote(t[c + 1]) /\ c + 2 \in cs)}

\* the rest of the pattern matches when [^\n\r]* stops before position a
TailMatches(t, a, cs) ==
    \/ (a <= Len(t) /\ IsQuote(t[a]) /\ GroupEnds(t, a + 1, cs) # {})
    \/ GroupEnds(t, a, cs) # {}

\* positions a at which [^\n\r]*, started at p, may stop
StarStops(t, p) ==
    LET breaks == {k \in p..Len(t) : t[k] \in {"\n", "\r"}}
    IN  p..(IF breaks = {} THEN Len(t) + 1 ELSE SetMin(breaks))

MatchStarts(t, cs) ==
    {s \in 1..Len(t) :
        /\ MatchesAt(t, s, SumOfThe, TRUE)
        /\ \E a \in StarStops(t, s + Len(SumOfThe)) : TailMatches(t, a, cs)}

\* q_match: [found, group], group being q_match.group(1)
q_match(t) ==
    LET cs == ColumnStarts(t)
        ms == MatchStarts(t, cs)
    IN  IF cs = {} \/ ms = {} THEN [found |-> FALSE, group |-> <<>>]
        ELSE LET s == SetMin(ms)
                 a == SetMax({x \in StarStops(t, s + Len(SumOfThe)) :
                                 TailMatches(t, x, cs)})
                 b == IF a <= Len(t) /\ IsQuote(t[a]) /\ GroupEnds(t, a + 1, cs) # {}
                      THEN a + 1 ELSE a
                 c == SetMax(GroupEnds(t, b, cs))
             IN  [found |-> TRUE, group |-> SubSeq(t, b, c)]

(***************************************************************************)
(* Python values.  None, a number or a string, as one record shape so that  *)
(* any two values can be compared.                                          *)
(***************************************************************************)
\* answer_meta["method"]: a tag and, for the tags built with an f-string, the
\* column label that follows the tag
Method(tag, col) == [tag |-> tag, col |-> col]

NoMethod == Method("", <<>>)

None == [kind |-> "none", num |-> 0, str |-> "", meta |-> NoMethod]

Num(n) == [kind |-> "num", num |-> n, str |-> "", meta |-> NoMethod]

Str(s) == [kind |-> "str", num |-> 0, str |-> s, meta |-> NoMethod]

\* the dict {"method": m, "raw_page_sample": None}
Meta(m) == [kind |-> "dict", num |-> 0, str |-> "", meta |-> m]

\* bool(v)
Truthy(v) ==
    \/ (v.kind = "num" /\ v.num # 0)
    \/ (v.kind = "str" /\ v.str # "")
    \/ v.kind = "dict"

\* a or b
PyOr(a, b) == IF Truthy(a) THEN a ELSE b

\* A JSON object is a function from its keys to values; try_parse_json_from_text
\* returns such an object or None: [found, obj].
EmptyObj == [k \in {} |-> None]

NoJson == [found |-> FALSE, obj |-> EmptyObj]

Json(o) == [found |-> TRUE, obj |-> o]

\* bool(j): None and {} are falsy
JsonTruthy(j) == j.found /\ DOMAIN j.obj # {}

\* d.get(k)
Get(d, k) == IF k \in DOMAIN d THEN d[k] ELSE None

\* d.get(k, default)
GetOr(d, k, default) == IF k \in DOMAIN d THEN d[k] ELSE default

(***************************************************************************)
(* Data frames.  A frame is a sequence of columns [label, cells].  A label  *)
(* is a string (a header cell) or an integer (pandas numbers the columns of *)
(* a table without a header row).  A column holds numbers (numeric dtype)   *)
(* or strings (object dtype).                                               *)
(***************************************************************************)
StrLabel(s) == [isstr |-> TRUE, s |-> s, i |-> 0]

IntLabel(i) == [isstr |-> FALSE, s |-> <<>>, i |-> i]

NumCell(n) == [isnum |-> TRUE, n |-> n, s |-> <<>>]

StrCell(s) == [isnum |-> FALSE, n |-> 0, s |-> s]

NoFrame == [found |-> FALSE, cols |-> <<>>]

Frame(cols) == [found |-> TRUE, cols |-> cols]

\* float(s) of a cell string: [ok, val]
FloatOf(s) ==
    LET t   == Strip(s)
        tok == IF t = <<>> THEN [ok |-> FALSE, end |-> 0, val |-> 0]
               ELSE NumberTokenAt(t, 1)
    IN  [ok |-> tok.ok /\ tok.end = Len(t), val |-> tok.val]

\* Series.str.replace(r"[^\d\.\-]", "", regex=True) on one cell
RECURSIVE KeepNumeric(_)
KeepNumeric(s) ==
    IF s = <<>> THEN <<>>
    ELSE IF IsDigit(Head(s)) \/ Head(s) \in {".", "-"}
         THEN <<Head(s)>> \o KeepNumeric(Tail(s))
         ELSE KeepNumeric(Tail(s))

\* df[col].astype(float) succeeds: every cell is a number or parses as one
AsTypeFloatOk(cells) ==
    \A k \in 1..Len(cells) : cells[k].isnum \/ FloatOf(cells[k].s).ok

RECURSIVE SumAsFloat(_)
SumAsFloat(cells) ==
    IF cells = <<>> THEN 0
    ELSE (IF Head(cells).isnum THEN Head(cells).n ELSE FloatOf(Head(cells).s).val)
         + SumAsFloat(Tail(cells))

\* pd.to_numeric(df[col].str.replace(...), errors="coerce").sum(skipna=True):
\* .str gives NaN for a cell that is no string, and an unparseable rest is NaN
RECURSIVE SumCoerced(_)
SumCoerced(cells) ==
    IF cells = <<>> THEN 0
    ELSE (IF Head(cells).isnum THEN 0
          ELSE LET f == FloatOf(KeepNumeric(Head(cells).s))
               IN  IF f.ok THEN f.val ELSE 0)
         + SumCoerced(Tail(cells))

\* pd.to_numeric(df[c], errors="coerce").sum(): unparseable cells are NaN and
\* are skipped by sum(); the call raises for no column
SumToNumeric(cells) ==
    LET RECURSIVE go(_)
        go(cs) == IF cs = <<>> THEN 0
                  ELSE (IF Head(cs).isnum THEN Head(cs).n
                        ELSE IF FloatOf(Head(cs).s).ok THEN FloatOf(Head(cs).s).val
                        ELSE 0)
                       + go(Tail(cs))
    IN  go(cells)

\* the result of a helper that may raise: [raised, val]
Ret(v) == [raised |-> FALSE, val |-> v]

Raise == [raised |-> TRUE, val |-> None]

\* utils.sum_dataframe_column, lines 41-47: the column is present
SumPresentColumn(cells) ==
    IF AsTypeFloatOk(cells) THEN Num(SumAsFloat(cells)) ELSE Num(SumCoerced(cells))

\* utils.sum_dataframe_column(df, col_name)
sum_dataframe_column(cols, col_name) ==
    LET exact == {k \in 1..Len(cols) : cols[k].label.isstr /\ cols[k].label.s = col_name}
        \* lower = {c.lower(): c for c in df.columns}: the last column wins a key
        fuzzy == {k \in 1..Len(cols) :
                     cols[k].label.isstr /\ Lower(cols[k].label.s) = Lower(col_name)}
    IN  IF exact # {} THEN Ret(SumPresentColumn(cols[SetMin(exact)].cells))
        \* c.lower() on an integer label raises AttributeError
        ELSE IF \E k \in 1..Len(cols) : ~cols[k].label.isstr THEN Raise
        ELSE IF fuzzy # {} THEN Ret(SumPresentColumn(cols[SetMax(fuzzy)].cells))
        ELSE Ret(None)

(***************************************************************************)
(* Configuration (src/config.py) and the strings the chain handles as       *)
(* wholes.                                                                  *)
(***************************************************************************)
EMAIL == "you@example.com"

SECRET == "replace-with-your-secret"

\* QUIZ_TIMEOUT, in ticks of the model's clock
TIMEOUT_SECONDS == 1

\* the clock stops advancing here
MaxNow == 2

\* page navigations per chain
MaxIter == 2

UrlPage1 == "https://q/one"

UrlPage2 == "https://q/two"

UrlPage3 == "https://q/three"

UrlSubmit == "https://q/submit"

UrlInfo == "https://q/info"

UrlTplSubmit == "https://q/tpl-submit"

UrlData == "https://q/data.csv"

\* "submit" in c or "submit" in c.lower() or "answer" in c.lower()
MentionsSubmit(u) == u \in {UrlSubmit, UrlTplSubmit}

\* u.endswith((".csv", ".pdf", ".xlsx")) and u.endswith(".csv")
EndsWithDataExt(u) == u \in {UrlData}

EndsWithCsv(u) == u \in {UrlData}

(***************************************************************************)
(* The pages a server may answer a navigation with.  A page is what the     *)
(* browser and the extraction helpers make of it:                           *)
(*   plain      page.inner_text("body"), character by character            *)
(*   plain_urls re.findall(r"(https?://[^\s'\"<>]+)", page_plain)           *)
(*   attr_urls  URLs that occur only in markup attributes of page.content() *)
(*   plain_json try_parse_json_from_text(page_plain)                        *)
(*   html_json  try_parse_json_from_text(page_text)                         *)
(*   blob       decode_base64_block(page_plain) or (page_text): the text    *)
(*              decoded and the JSON object try_parse_json_from_text finds  *)
(*              in that text                                                *)
(*   table      parse_table_html_to_df(page_text)                           *)
(*   hrefs      re.findall(r'href=[\'"]([^\'"]+)', page_text)               *)
(***************************************************************************)
TextHello == <<"h","e","l","l","o">>

TextSumX == <<"S","u","m"," ","o","f"," ","t","h","e"," ","x"," ","c","o","l","u","m","n">>

TextSumValue == <<"s","u","m"," ","o","f"," ","t","h","e"," ","'","v","a","l","u","e","'"," ","c","o","l","u","m","n">>

TextInline == <<"T","h","e"," ","s","u","m"," ","o","f"," ","t","h","e","s","e"," ","n","u","m","b","e","r","s",":"," ","4",","," ","5",","," ","6">>

TextNumbers == <<"7"," ","a","n","d"," ","8">>

\* a table and its rendering in the visible text
TableNone == [frame |-> NoFrame, text |-> <<>>]

TableX ==
    [frame |-> Frame(<< [label |-> StrLabel(<<"i","d">>),
                         cells |-> <<NumCell(1), NumCell(2)>>],
                        [label |-> StrLabel(<<"X">>),
                         cells |-> <<StrCell(<<"$","4">>), StrCell(<<"6">>)>>] >>),
     text  |-> <<" ","i","d"," ","X"," ","1"," ","$","4"," ","2"," ","6">>]

TableValue ==
    [frame |-> Frame(<< [label |-> StrLabel(<<"v","a","l","u","e">>),
                         cells |-> <<NumCell(10), NumCell(20), NumCell(30)>>] >>),
     text  |-> <<" ","v","a","l","u","e"," ","1","0"," ","2","0"," ","3","0">>]

TableHeaderless ==
    [frame |-> Frame(<< [label |-> IntLabel(0),
                         cells |-> <<NumCell(1), NumCell(2)>>] >>),
     text  |-> <<" ","1"," ","2">>]

\* visible text and table of the pages
Heads ==
    {<<TextHello, TableNone>>, <<TextHello, TableX>>, <<TextNumbers, TableNone>>,
     <<TextSumX, TableNone>>, <<TextSumX, TableX>>, <<TextSumX, TableValue>>,
     <<TextSumX, TableHeaderless>>,
     <<TextSumValue, TableNone>>, <<TextSumValue, TableValue>>,
     <<TextInline, TableNone>>}

\* an href: how it is written and the extension it ends in
\* (form "abs" http(s)://..., "proto" //host/..., "root" /path, "bare" path)
Link(form, ends) == [form |-> form, ends |-> ends]

\* a payload template with every key and a filled answer
TplAnswer ==
    Json([k \in {"email", "secret", "url", "submit", "answer"} |->
            CASE k = "email"  -> Str("p@e")
              [] k = "secret" -> Str("ps")
              [] k = "url"    -> Str(UrlPage3)
              [] k = "submit" -> Str(UrlTplSubmit)
              [] k = "answer" -> Num(99)])

\* a payload template whose url names a data file, with an extra field
TplFile ==
    Json([k \in {"email", "secret", "url", "extra", "answer"} |->
            CASE k = "email"  -> Str("p@e")
              [] k = "secret" -> Str("ps")
              [] k = "url"    -> Str(UrlData)
              [] k = "extra"  -> Str("keep")
              [] k = "answer" -> None])

\* an object that names a submit endpoint and lacks email, secret and url
TplPartial == Json([k \in {"submit"} |-> Str(UrlTplSubmit)])

\* an object whose url is no string
TplBadUrl ==
    Json([k \in {"email", "secret", "url"} |->
            CASE k = "email"  -> Str("p@e")
              [] k = "secret" -> Str("ps")
              [] k = "url"    -> Num(5)])

\* objects of the markup that name "submit" and are no full template: the
\* field empty beside a url, the field null, and one with a nested answer
TplEmptySubmit ==
    Json([k \in {"submit", "url"} |-> IF k = "submit" THEN Str("") ELSE Str(UrlInfo)])

TplNullSubmit == Json([k \in {"submit"} |-> None])

\* a JSON object or array as a value, taken as a whole
Nested == [kind |-> "dict", num |-> 0, str |-> "", meta |-> Method("nested", <<>>)]

TplNested ==
    Json([k \in {"submit", "answer", "extra"} |->
            CASE k = "submit" -> Str(UrlTplSubmit)
              [] k = "answer" -> Nested
              [] k = "extra"  -> Str("keep")])

NoBlob == [found |-> FALSE, text |-> <<>>, json |-> NoJson]

BlobAnswer ==
    [found |-> TRUE,
     text  |-> <<"{","\"","a","n","s","w","e","r","\"",":"," ","4","2","}">>,
     json  |-> Json([k \in {"answer"} |-> Num(42)])]

BlobNull ==
    [found |-> TRUE,
     text  |-> <<"{","\"","a","n","s","w","e","r","\"",":"," ","n","u","l","l","}"," ","3">>,
     json  |-> Json([k \in {"answer"} |-> None])]

BlobNumbers ==
    [found |-> TRUE, text |-> <<"k","e","y"," ","1","1"," ","1","2">>, json |-> NoJson]

\* the visible text of the JSON snippets
TextTplAnswer == <<"{","\"","e","m","a","i","l","\"",":","\"","p","@","e","\"",",","\"","s","e","c","r","e","t","\"",":","\"","p","s","\"",",","\"","u","r","l","\"",":","\"","h","t","t","p","s",":","/","/","q","/","t","h","r","e","e","\"",",","\"","s","u","b","m","i","t","\"",":","\"","h","t","t","p","s",":","/","/","q","/","t","p","l","-","s","u","b","m","i","t","\"",",","\"","a","n","s","w","e","r","\"",":","9","9","}">>

TextTplFile == <<"{","\"","e","m","a","i","l","\"",":","\"","p","@","e","\"",",","\"","s","e","c","r","e","t","\"",":","\"","p","s","\"",",","\"","u","r","l","\"",":","\"","h","t","t","p","s",":","/","/","q","/","d","a","t","a",".","c","s","v","\"",",","\"","e","x","t","r","a","\"",":","\"","k","e","e","p","\"",",","\"","a","n","s","w","e","r","\"",":","n","u","l","l","}">>

TextTplBadUrl == <<"{","\"","e","m","a","i","l","\"",":","\"","p","@","e","\"",",","\"","s","e","c","r","e","t","\"",":","\"","p","s","\"",",","\"","u","r","l","\"",":","5","}">>

\* the rest of a page: links, JSON objects (with the visible text of an object
\* of the visible text), blob, URLs of the visible text and of the attributes
Rest(hrefs, pj, hj, text, blob, urls, attrs) ==
    [hrefs |-> hrefs, plain_json |-> pj, html_json |-> hj, text |-> text,
     blob |-> blob, plain_urls |-> urls, attr_urls |-> attrs]

\* rests every head is combined with
CoreRests ==
    { Rest(<<>>, NoJson, NoJson, <<>>, NoBlob, <<UrlInfo, UrlSubmit>>, <<>>),
      Rest(<<Link("abs", "none"), Link("abs", "csv")>>, NoJson, NoJson, <<>>, NoBlob,
           <<UrlInfo>>, <<>>),
      Rest(<<>>, TplAnswer, TplAnswer, TextTplAnswer, BlobAnswer,
           <<UrlPage3, UrlTplSubmit>>, <<>>),
      Rest(<<Link("root", "pdf")>>, TplFile, TplFile, TextTplFile, BlobNumbers,
           <<UrlData>>, <<>>) }

\* rests combined with two heads
MoreRests ==
    { Rest(<<>>, NoJson, NoJson, <<>>, NoBlob, <<>>, <<UrlSubmit>>),
      Rest(<<Link("bare", "csv")>>, NoJson, NoJson, <<>>, NoBlob, <<UrlSubmit>>, <<>>),
      Rest(<<Link("proto", "xls")>>, NoJson, NoJson, <<>>, NoBlob, <<UrlSubmit>>, <<>>),
      Rest(<<>>, TplFile, TplFile, TextTplFile, NoBlob, <<UrlData>>, <<>>),
      Rest(<<>>, NoJson, TplPartial, <<>>, BlobNull, <<>>, <<>>),
      Rest(<<>>, TplBadUrl, TplBadUrl, TextTplBadUrl, NoBlob, <<>>, <<>>),
      Rest(<<>>, NoJson, NoJson, <<>>, BlobAnswer, <<UrlSubmit>>, <<>>),
      Rest(<<>>, NoJson, TplEmptySubmit, <<>>, NoBlob, <<UrlSubmit>>, <<>>),
      Rest(<<>>, NoJson, TplNullSubmit, <<>>, NoBlob, <<UrlSubmit>>, <<>>),
      Rest(<<>>, NoJson, TplNested, <<>>, NoBlob, <<>>, <<>>),
      Rest(<<Link("abs", "csv")>>, TplBadUrl, TplBadUrl, TextTplBadUrl, NoBlob, <<>>, <<>>) }

MoreHeads == {<<TextHello, TableNone>>, <<TextSumX, TableX>>}

MkPage(instr, tbl, rest) ==
    [plain      |-> instr \o tbl.text \o rest.text,
     table      |-> tbl.frame,
     hrefs      |-> rest.hrefs,
     plain_json |-> rest.plain_json,
     html_json  |-> rest.html_json,
     blob       |-> rest.blob,
     plain_urls |-> rest.plain_urls,
     attr_urls  |-> rest.attr_urls]

Pages ==
    {MkPage(x[1][1], x[1][2], x[2]) :
        x \in (Heads \X CoreRests) \cup (MoreHeads \X MoreRests)}

\* what the helpers compute from the text of each page of the catalogue
PageFacts ==
    {<<p, [q_match |-> q_match(p.plain),
           colname |-> Strip(q_match(p.plain).group),
           numbers |-> extract_numbers(p.plain),
           decoded_numbers |-> extract_numbers(p.blob.text),
           asks_sum |-> \/ Contains(Lower(p.plain), SumOfWord)
                        \/ Contains(Lower(p.plain), WhatIsTheSum)]>> : p \in Pages}

FactsOf(p) == (CHOOSE x \in PageFacts : x[1] = p)[2]

\* "sum of" in page_plain.lower() or "what is the sum" in page_plain.lower()
AsksSum(p) == FactsOf(p).asks_sum

\* re.search(..., page_plain, re.I) of line 80
QMatch(p) == FactsOf(p).q_match

\* extract_numbers(page_plain)
PlainNumbers(p) == FactsOf(p).numbers

\* q_match.group(1).strip() of line 82
StrippedGroup(p) == FactsOf(p).colname

\* extract_numbers(decoded) of line 214
DecodedNumbers(p) == FactsOf(p).decoded_numbers

NoPage == MkPage(<<>>, TableNone, Rest(<<>>, NoJson, NoJson, <<>>, NoBlob, <<>>, <<>>))

(***************************************************************************)
(* What a server may answer a file fetch with: an error (raise_for_status,  *)
(* a network failure), or bytes, given by what each parser makes of them:   *)
(* frame for pd.read_csv / pd.read_excel (NoFrame: the parser raises),      *)
(* text for content.decode("utf-8", errors="ignore").                        *)
(***************************************************************************)
FileError == [ok |-> FALSE, frame |-> NoFrame, text |-> <<>>]

FileNameValue ==
    [ok    |-> TRUE,
     frame |-> Frame(<< [label |-> StrLabel(<<"n","a","m","e">>),
                         cells |-> <<StrCell(<<"a">>), StrCell(<<"b">>), StrCell(<<"c">>)>>],
                        [label |-> StrLabel(<<"x">>),
                         cells |-> <<NumCell(1), NumCell(2), NumCell(3)>>] >>),
     text  |-> <<"n","a","m","e",",","x"," ","a",",","1"," ","b",",","2"," ","c",",","3">>]

FileGarbage == [ok |-> TRUE, frame |-> NoFrame, text |-> <<"%","P","D","F">>]

Files == {FileError, FileNameValue, FileGarbage}

NoFile == [ok |-> FALSE, frame |-> NoFrame, text |-> <<"-">>]

(***************************************************************************)
(* What a server may answer the POST with.  A response is its status, its   *)
(* body as r.json() gives it (is_json: the body parses; is_dict: it is an   *)
(* object) and its raw text.                                                *)
(***************************************************************************)
Response(status, is_json, is_dict, obj, text) ==
    [status |-> status, is_json |-> is_json, is_dict |-> is_dict, obj |-> obj,
     text |-> text]

RespCorrect == Response(200, TRUE, TRUE, [k \in {"correct"} |-> Num(1)], "")

RespUrl == Response(200, TRUE, TRUE, [k \in {"url"} |-> Str(UrlPage2)], "")

RespNext == Response(200, TRUE, TRUE, [k \in {"next"} |-> Str(UrlPage2)], "")

RespBoth ==
    Response(200, TRUE, TRUE,
             [k \in {"url", "next"} |-> IF k = "url" THEN Str(UrlPage2) ELSE Str(UrlPage3)],
             "")

RespEmptyUrl ==
    Response(200, TRUE, TRUE,
             [k \in {"url", "next"} |-> IF k = "url" THEN Str("") ELSE Str(UrlPage3)],
             "")

RespNullUrl == Response(400, TRUE, TRUE, [k \in {"url"} |-> None], "")

RespList == Response(200, TRUE, FALSE, EmptyObj, "[]")

RespRaw == Response(500, FALSE, FALSE, EmptyObj, "Internal Server Error")

Responses ==
    {RespCorrect, RespUrl, RespNext, RespBoth, RespEmptyUrl, RespNullUrl, RespList,
     RespRaw}

\* str(e) of the exceptions http_client.post may raise
PostErrors == {"ConnectError"}

\* resp_json, lines 272-275: [present, is_dict, obj]
NoResponse == [present |-> FALSE, is_dict |-> FALSE, obj |-> EmptyObj]

resp_json(r) ==
    IF r.is_json
    THEN [present |-> TRUE, is_dict |-> r.is_dict, obj |-> r.obj]
    ELSE [present |-> TRUE, is_dict |-> TRUE,
          obj |-> [k \in {"status_code", "text"} |->
                      IF k = "status_code" THEN Num(r.status) ELSE Str(r.text)]]

\* next_url with "next" read before "url"
next_url_NextFirst(rj) ==
    IF rj.is_dict THEN PyOr(Get(rj.obj, "next"), Get(rj.obj, "url")) ELSE None

\* next_url with "next" never read
next_url_UrlOnly(rj) == IF rj.is_dict THEN Get(rj.obj, "url") ELSE None

\* next_url, lines 278-280
next_url(rj) ==
    IF rj.is_dict THEN PyOr(Get(rj.obj, "url"), Get(rj.obj, "next")) ELSE None

(***************************************************************************)
(* Extraction, lines 43-73                                                  *)
(***************************************************************************)
\* try_parse_json_from_text(page_plain) or try_parse_json_from_text(page_text)
parsed_json(p) == IF JsonTruthy(p.plain_json) THEN p.plain_json ELSE p.html_json

\* decode_base64_block(page_plain) or decode_base64_block(page_text)
decoded(p) == p.blob

\* lines 52-61: the first URL of the visible text that mentions submit or
\* answer, else the first URL
LinkGuess(p) ==
    LET c    == p.plain_urls
        hits == {k \in 1..Len(c) : MentionsSubmit(c[k])}
    IN  IF c = <<>> THEN None
        ELSE IF hits # {} THEN Str(c[SetMin(hits)])
        ELSE Str(c[1])

\* "submit" in json.dumps(parsed_json).lower()
DumpsMentionsSubmit(o) ==
    \E k \in DOMAIN o : k = "submit" \/ (o[k].kind = "str" /\ MentionsSubmit(o[k].str))

\* lines 70-71: jsn and all(k in jsn for k in ("email", "secret", "url"))
IsFullTemplate(j) == JsonTruthy(j) /\ {"email", "secret", "url"} \subseteq DOMAIN j.obj

\* submit_payload_template after lines 64-72
TemplateOf(p) ==
    IF IsFullTemplate(p.plain_json) THEN p.plain_json
    ELSE IF JsonTruthy(parsed_json(p)) /\ DumpsMentionsSubmit(parsed_json(p).obj)
         THEN parsed_json(p)
    ELSE NoJson

\* submit_url after line 73
SubmitGuess(p) ==
    IF IsFullTemplate(p.plain_json)
    THEN PyOr(GetOr(p.plain_json.obj, "submit", LinkGuess(p)),
              GetOr(p.plain_json.obj, "url", LinkGuess(p)))
    ELSE LinkGuess(p)

(***************************************************************************)
(* The answer cascade, lines 76-225.  Each step is a function of the page,  *)
(* of the column name known so far and of the file a fetch returned; it     *)
(* gives the answer and answer_meta["method"] it sets (None and NoMethod    *)
(* for what it leaves alone).                                               *)
(***************************************************************************)
Yield(a, m) == [answer |-> a, method |-> m, raised |-> FALSE, file_error |-> FALSE]

Nothing == Yield(None, NoMethod)

Escapes == [answer |-> None, method |-> NoMethod, raised |-> TRUE, file_error |-> FALSE]

\* a failed fetch that nothing catches
FileFailed_Escapes ==
    [answer |-> None, method |-> NoMethod, raised |-> TRUE, file_error |-> TRUE]

\* line 170: the except of step 2 records the error and the cascade goes on
FileFailed == [answer |-> None, method |-> NoMethod, raised |-> FALSE, file_error |-> TRUE]

\* 'colname' in locals(): the name is a local of the whole call, not of one iteration
NoColname == [set |-> FALSE, name |-> <<>>]

\* lines 80-82
ColnameAfter(p, colname) ==
    IF QMatch(p).found
    THEN [set |-> TRUE, name |-> StrippedGroup(p)]
    ELSE colname

\* 1) lines 80-89; sum_dataframe_column is called outside any try
Step1Yield(p) ==
    IF QMatch(p).found /\ p.table.found
    THEN LET r == sum_dataframe_column(p.table.cols, StrippedGroup(p))
         IN  IF r.raised THEN Escapes
             ELSE IF r.val # None THEN Yield(r.val, Method("html-table-sum", <<>>))
             ELSE Nothing
    ELSE Nothing

\* step 1 on each page of the catalogue
Step1Yields == {<<p, Step1Yield(p)>> : p \in Pages}

Step1(p) == (CHOOSE x \in Step1Yields : x[1] = p)[2]

\* lines 94-99: the first href naming a file; [found, link]
FileLink(p) ==
    LET hits == {k \in 1..Len(p.hrefs) : p.hrefs[k].ends # "none"}
    IN  IF hits = {} THEN [found |-> FALSE, link |-> Link("abs", "none")]
        ELSE [found |-> TRUE, link |-> p.hrefs[SetMin(hits)]]

\* lines 102-107: "//host/x" gets a scheme, "/x" is joined to the page URL, and
\* any other href is fetched as written, which httpx refuses for a path
FetchableLink(link) == link.form \in {"abs", "proto", "root"}

\* lines 112-127 and 130-143: a parsed csv or excel frame
FrameAnswer(cols, colname, namedTag, firstTag) ==
    IF colname.set
    THEN LET r == sum_dataframe_column(cols, colname.name)
         IN  IF r.raised THEN FileFailed
             ELSE IF r.val # None THEN Yield(r.val, Method(namedTag, <<>>))
             ELSE Nothing
    ELSE IF cols = <<>> THEN Nothing
    ELSE Yield(Num(SumToNumeric(cols[1].cells)), Method(firstTag, cols[1].label.s))

\* lines 146-168: io is no name of worker.py, so pdfplumber.open(io.BytesIO(..))
\* raises NameError and the text is content.decode("utf-8", errors="ignore")
PdfAnswer(text, colname) ==
    IF extract_numbers(text) = <<>> THEN Nothing
    ELSE Yield(Num(SumSeq(extract_numbers(text))),
               Method(IF colname.set THEN "pdf-sum-heuristic" ELSE "pdf-sum-all-numbers",
                      <<>>))

\* 2) lines 108-170, given the href and what the fetch returned
Step2(link, colname, f) ==
    IF ~f.ok THEN FileFailed
    ELSE IF link.ends \in {"csv", "xls"}
         THEN IF ~f.frame.found THEN FileFailed
              ELSE IF link.ends = "csv"
                   THEN FrameAnswer(f.frame.cols, colname, "csv-sum", "csv-first-numeric:")
                   ELSE FrameAnswer(f.frame.cols, colname, "excel-sum",
                                    "excel-first-numeric:")
    ELSE IF link.ends = "pdf" THEN PdfAnswer(f.text, colname)
    ELSE Nothing

\* 3) lines 175-179
Step3(p) ==
    IF AsksSum(p) /\ PlainNumbers(p) # <<>>
    THEN Yield(Num(SumSeq(PlainNumbers(p))), Method("sum-inline-numbers", <<>>))
    ELSE Nothing

\* line 185
HasScalarAnswer(t) == "answer" \in DOMAIN t /\ t["answer"].kind \in {"num", "str"}

\* line 189 is reached and payload.get("url", "") is no string: .endswith raises
Step4Raises(tpl) ==
    /\ JsonTruthy(tpl)
    /\ ~HasScalarAnswer(tpl.obj)
    /\ "url" \in DOMAIN tpl.obj
    /\ tpl.obj["url"].kind # "str"

\* lines 189-191: the template names a data file, which is fetched
Step4Fetches(tpl) ==
    /\ JsonTruthy(tpl)
    /\ ~HasScalarAnswer(tpl.obj)
    /\ "url" \in DOMAIN tpl.obj
    /\ tpl.obj["url"].kind = "str"
    /\ EndsWithDataExt(tpl.obj["url"].str)

\* 4) lines 182-204, given what the fetch (if any) returned
Step4(tpl, f) ==
    IF ~JsonTruthy(tpl) THEN Nothing
    ELSE IF HasScalarAnswer(tpl.obj)
         THEN Yield(tpl.obj["answer"], Method("from_template", <<>>))
    ELSE IF Step4Raises(tpl) THEN Escapes
    ELSE IF /\ Step4Fetches(tpl)
            /\ f.ok
            /\ EndsWithCsv(tpl.obj["url"].str)
            /\ f.frame.found
            /\ f.frame.cols # <<>>
         THEN Yield(Num(SumToNumeric(f.frame.cols[1].cells)),
                    Method("template-csv-first-num:", f.frame.cols[1].label.s))
    ELSE Nothing

\* 5) lines 207-218
Step5(p) ==
    IF ~(decoded(p).found /\ decoded(p).text # <<>>) THEN Nothing
    ELSE IF JsonTruthy(decoded(p).json) /\ "answer" \in DOMAIN decoded(p).json.obj
         THEN Yield(decoded(p).json.obj["answer"], Method("decoded-json", <<>>))
    ELSE IF DecodedNumbers(p) # <<>>
         THEN Yield(Num(SumSeq(DecodedNumbers(p))),
                    Method("decoded-sum", <<>>))
    ELSE Nothing

\* 6) lines 221-225
Step6(p) ==
    IF PlainNumbers(p) # <<>>
    THEN Yield(Num(SumSeq(PlainNumbers(p))), Method("fallback-sum-page", <<>>))
    ELSE Nothing

\* the guard left out: every step runs
StepRuns_Always(answer) == TRUE

\* "if answer is None", the guard of steps 2 to 6
StepRuns(answer) == answer = None

(***************************************************************************)
(* Payload and submit target, lines 228-258                                 *)
(***************************************************************************)
\* lines 228-246
ComputedPayload(email, secret, url, answer, method) ==
    IF answer = None
    THEN [k \in {"email", "secret", "url", "answer", "note"} |->
            CASE k = "email"  -> Str(email)
              [] k = "secret" -> Str(secret)
              [] k = "url"    -> Str(url)
              [] k = "answer" -> None
              [] k = "note"   -> Str("unable to parse task automatically")]
    ELSE [k \in {"email", "secret", "url", "answer", "_meta"} |->
            CASE k = "email"  -> Str(email)
              [] k = "secret" -> Str(secret)
              [] k = "url"    -> Str(url)
              [] k = "answer" -> answer
              [] k = "_meta"  -> Meta(method)]

\* the merge with the template's values kept
Merge_TemplateWins(base, computed) ==
    LET set == {k \in DOMAIN computed : computed[k] # None}
    IN  [k \in DOMAIN base \cup set |-> IF k \in DOMAIN base THEN base[k] ELSE computed[k]]

\* the merge with every computed field written, the null ones too
Merge_NullErases(base, computed) ==
    [k \in DOMAIN base \cup DOMAIN computed |->
        IF k \in DOMAIN computed THEN computed[k] ELSE base[k]]

\* lines 250-251: base.update({k: v for k, v in answer_payload.items() if v is not None})
Merge(base, computed) ==
    LET set == {k \in DOMAIN computed : computed[k] # None}
    IN  [k \in DOMAIN base \cup set |-> IF k \in set THEN computed[k] ELSE base[k]]

\* lines 249-252
MergedPayload(tpl, computed) ==
    IF JsonTruthy(tpl) THEN Merge(tpl.obj, computed) ELSE computed

\* the target with the template's "url" read before its "submit"
SubmitTarget_UrlFirst(tpl, guess) ==
    IF JsonTruthy(tpl) /\ Truthy(PyOr(Get(tpl.obj, "url"), Get(tpl.obj, "submit")))
    THEN PyOr(Get(tpl.obj, "url"), Get(tpl.obj, "submit"))
    ELSE guess

\* lines 255-258
SubmitTarget(tpl, guess) ==
    IF JsonTruthy(tpl) /\ Truthy(PyOr(Get(tpl.obj, "submit"), Get(tpl.obj, "url")))
    THEN PyOr(Get(tpl.obj, "submit"), Get(tpl.obj, "url"))
    ELSE guess

(***************************************************************************)
(* The ingress endpoint, src/aap/main.py.  A request body is what           *)
(* req.json() makes of it: it raises (is_json FALSE), or it gives an        *)
(* object, a list (its string items), a number or null.                     *)
(***************************************************************************)
Body(is_json, kind, obj, items) ==
    [is_json |-> is_json, kind |-> kind, obj |-> obj, items |-> items]

BodyInvalid == Body(FALSE, "none", EmptyObj, {})

BodyNumber == Body(TRUE, "num", EmptyObj, {})

BodyNull == Body(TRUE, "null", EmptyObj, {})

BodyLists == {Body(TRUE, "list", EmptyObj, i) : i \in {{}, {"email", "secret", "url"}}}

\* the values a client may give the three fields
FieldValues ==
    [email  |-> {Str("a@b")},
     secret |-> {Str(SECRET), Str("wrong"), Num(7)},
     url    |-> {Str(UrlPage1), Str("")}]

\* the objects with any of the three keys
BodyObjects ==
    LET Values == FieldValues.email \cup FieldValues.secret \cup FieldValues.url
        Objects(K) == {o \in [K -> Values] : \A k \in K : o[k] \in FieldValues[k]}
    IN  UNION {{Body(TRUE, "dict", o, {}) : o \in Objects(K)}
               : K \in SUBSET {"email", "secret", "url"}}

Bodies ==
    {b : b \in {BodyInvalid, BodyNumber, BodyNull} \cup BodyLists \cup BodyObjects}

NoRequest == Body(FALSE, "unread", EmptyObj, {})

\* an HTTP response of the endpoint: the status and the detail or content
Reply(status, text) == [status |-> status, text |-> text]

NoReply == Reply(0, "")

Accepted == Reply(200, "{\"status\": \"accepted\"}")

\* line 27: k in j, for an object its keys, for a list its items; the test
\* raises TypeError for a number and for null
HasKey(b, k) == IF b.kind = "dict" THEN k \in DOMAIN b.obj ELSE k \in b.items

\* quiz_entry, lines 20-46: the response, and whether create_task was called.
\* An exception that is no HTTPException leaves the handler and the server
\* answers 500.
quiz_entry(b) ==
    IF ~b.is_json THEN [reply |-> Reply(400, "Invalid JSON"), starts |-> FALSE]
    ELSE IF b.kind \in {"num", "null"}
         THEN [reply |-> Reply(500, "Internal Server Error"), starts |-> FALSE]
    ELSE IF ~(\A k \in {"email", "secret", "url"} : HasKey(b, k))
         THEN [reply |-> Reply(400, "Missing fields"), starts |-> FALSE]
    \* j["secret"] on a list raises TypeError
    ELSE IF b.kind # "dict"
         THEN [reply |-> Reply(500, "Internal Server Error"), starts |-> FALSE]
    ELSE IF b.obj["secret"] # Str(SECRET)
         THEN [reply |-> Reply(403, "Invalid secret"), starts |-> FALSE]
    ELSE [reply |-> Accepted, starts |-> TRUE]

(***************************************************************************)
(* solve_quiz_chain as a state machine.  An action runs the code from one   *)
(* await (navigation, file fetch, POST) to the next; the cascade is one     *)
(* action per numbered step of the code.                                    *)
(***************************************************************************)
StartUrls == {UrlPage1, ""}

Secrets == {SECRET, "caller-secret"}

VARIABLES
    pc,              \* where the call is
    now,             \* time.time()
    start_url,       \* argument
    provided_secret, \* argument
    deadline,        \* line 28
    res,             \* the playwright driver, browser, context, page, HTTP client
    current_url,     \* line 34
    last_response,   \* line 35
    colname,         \* the local colname of line 82, once bound
    page,            \* what the navigation of this iteration returned
    template,        \* submit_payload_template
    submit_url,      \* submit_url
    answer,          \* answer
    method,          \* answer_meta["method"]
    file_error,      \* "file_error" in answer_meta
    answer_payload,  \* answer_payload
    result,          \* the value returned
    head_time,       \* the time the last loop-head test sampled
    page_url,        \* the URL the navigation of this iteration was given
    gotos,           \* page.goto calls so far
    posts,           \* http_client.post calls so far
    fetched,         \* the cascade steps that fetched a file in this iteration
    file2,           \* what the fetch of step 2 returned
    file4,           \* what the fetch of step 4 returned
    post_error,      \* str(e) of the exception the POST raised, "" for none
    request,         \* the body quiz_entry received
    reply,           \* the HTTP response quiz_entry gave
    task             \* the task of run_worker

vars ==
    <<pc, now, start_url, provided_secret, deadline, res, current_url, last_response,
      colname, page, template, submit_url, answer, method, file_error, answer_payload,
      result, head_time, page_url, gotos, posts, fetched, file2, file4, post_error,
      request, reply, task>>

chain == <<start_url, provided_secret, deadline, post_error>>

\* the state of main.py
ingress == <<request, reply, task>>

iteration ==
    <<page, template, submit_url, answer, method, file_error, answer_payload, page_url,
      fetched, file2, file4>>

NoResult == [returned |-> FALSE]

Unacquired ==
    [pw |-> "none", browser |-> "none", context |-> "none", page |-> "none",
     http |-> "none"]

\* lines 29-33
Acquired ==
    [pw |-> "open", browser |-> "open", context |-> "open", page |-> "open",
     http |-> "open"]

\* the four close calls before a return, then the exit of "async with"
ReleasedOnReturn(r) ==
    [r EXCEPT !.http = "closed", !.page = "closed", !.context = "closed",
              !.browser = "closed", !.pw = "closed"]

\* an exception leaves through "async with async_playwright()" alone: the driver
\* stops, which ends the browser it launched; nothing closes the HTTP client
ReleasedOnRaise(r) ==
    [r EXCEPT !.page = "closed", !.context = "closed", !.browser = "closed",
              !.pw = "closed"]

Init ==
    /\ pc = "start"
    /\ now = 0
    /\ start_url \in StartUrls
    /\ provided_secret \in Secrets
    /\ deadline = 0
    /\ res = Unacquired
    /\ current_url = ""
    /\ last_response = NoResponse
    /\ colname = NoColname
    /\ page = NoPage
    /\ template = NoJson
    /\ submit_url = None
    /\ answer = None
    /\ method = NoMethod
    /\ file_error = FALSE
    /\ answer_payload = EmptyObj
    /\ result = NoResult
    /\ head_time = 0
    /\ page_url = ""
    /\ gotos = 0
    /\ posts = 0
    /\ fetched = {}
    /\ file2 = NoFile
    /\ file4 = NoFile
    /\ post_error = ""
    /\ request = NoRequest
    /\ reply = NoReply
    /\ task = "none"

\* lines 299-304
TimeoutResult(lr) ==
    [success |-> FALSE, reason |-> <<"timeout or loop ended">>, last_response |-> lr]

\* line 266
NoSubmitResult(url, payload) ==
    [success |-> FALSE, reason |-> <<"No submit URL found on page">>, page_url |-> url,
     payload_tried |-> payload]

\* line 291
SuccessResult(rj, payload) ==
    [success |-> TRUE, final_response |-> rj, submitted |-> payload]

\* the failure result without the text of the error
SubmitFailure_NoText(e, payload) ==
    [success |-> FALSE, reason |-> <<"failed to submit answer: ", "">>,
     payload_tried |-> payload]

\* line 297: f"failed to submit answer: {str(e)}"
SubmitFailure(e, payload) ==
    [success |-> FALSE, reason |-> <<"failed to submit answer: ", e>>,
     payload_tried |-> payload]

\* the test of line 260 left out
HasTarget_Always(u) == TRUE

\* line 260: "if not submit_url" does not hold
HasTarget(u) == Truthy(u)

\* time passes while the call waits for a navigation, a fetch or the POST
AwaitPoints == {"goto", "post"}

\* the clock with the deadline enforced on the awaited call: the call is
\* abandoned when the deadline passes
Tick_Preempting ==
    /\ pc \in AwaitPoints
    /\ now < MaxNow
    /\ now' = now + 1
    /\ IF now' >= deadline
       THEN /\ pc' = "done"
            /\ res' = ReleasedOnReturn(res)
            /\ result' = TimeoutResult(last_response)
       ELSE UNCHANGED <<pc, res, result>>
    /\ UNCHANGED <<ingress, chain, current_url, last_response, colname, iteration,
                   head_time, gotos, posts>>

Tick ==
    /\ pc \in AwaitPoints
    /\ now < MaxNow
    /\ now' = now + 1
    /\ UNCHANGED <<ingress, pc, chain, res, current_url, last_response, colname, iteration,
                   result, head_time, gotos, posts>>

\* lines 28-35
Acquire ==
    /\ pc = "start"
    /\ deadline' = now + TIMEOUT_SECONDS
    /\ res' = Acquired
    /\ current_url' = start_url
    /\ last_response' = NoResponse
    /\ pc' = "loop"
    /\ UNCHANGED <<ingress, now, start_url, provided_secret, post_error, colname, iteration,
                   result, head_time, gotos, posts>>

\* the loop test with the deadline itself still inside the budget
LoopCondition_Inclusive(url, t, dl) == url # "" /\ t <= dl

\* line 37: current_url and time.time() < deadline
LoopCondition(url, t, dl) == url # "" /\ t < dl

\* line 37, the test passes
LoopEnter ==
    /\ pc = "loop"
    /\ LoopCondition(current_url, now, deadline)
    /\ gotos < MaxIter
    /\ head_time' = now
    /\ pc' = "goto"
    /\ UNCHANGED <<ingress, now, chain, res, current_url, last_response, colname, iteration,
                   result, gotos, posts>>

\* line 37, the test fails: lines 299-304
LoopExit ==
    /\ pc = "loop"
    /\ ~LoopCondition(current_url, now, deadline)
    /\ head_time' = now
    /\ res' = ReleasedOnReturn(res)
    /\ result' = TimeoutResult(last_response)
    /\ pc' = "done"
    /\ UNCHANGED <<ingress, now, chain, current_url, last_response, colname, iteration, gotos,
                   posts>>

\* lines 38-73: the navigation returns a page, and the extraction
Navigate ==
    /\ pc = "goto"
    /\ \E p \in Pages :
          /\ page' = p
          /\ template' = TemplateOf(p)
          /\ submit_url' = SubmitGuess(p)
    /\ page_url' = current_url
    /\ gotos' = gotos + 1
    /\ answer' = None
    /\ method' = NoMethod
    /\ file_error' = FALSE
    /\ answer_payload' = EmptyObj
    /\ fetched' = {}
    /\ file2' = NoFile
    /\ file4' = NoFile
    /\ pc' = "step1"
    /\ UNCHANGED <<ingress, now, chain, res, current_url, last_response, colname, result,
                   head_time, posts>>

\* line 38: page.goto raises (unreachable host, navigation timeout); nothing in
\* solve_quiz_chain catches it
NavigateFails ==
    /\ pc = "goto"
    /\ page_url' = current_url
    /\ gotos' = gotos + 1
    /\ res' = ReleasedOnRaise(res)
    /\ pc' = "raised"
    /\ UNCHANGED <<ingress, now, chain, current_url, last_response, colname, page, template,
                   submit_url, answer, method, file_error, answer_payload, result,
                   head_time, posts, fetched, file2, file4>>

\* an exception of the cascade that nothing catches
Raised ==
    /\ res' = ReleasedOnRaise(res)
    /\ pc' = "raised"
    /\ UNCHANGED <<answer, method, file_error>>

\* a step's yield is stored
Stored(y, nextPc) ==
    /\ answer' = y.answer
    /\ method' = IF y.method # NoMethod THEN y.method ELSE method
    /\ file_error' = (file_error \/ y.file_error)
    /\ res' = res
    /\ pc' = nextPc

\* lines 76-89
DoStep1 ==
    /\ pc = "step1"
    /\ colname' = ColnameAfter(page, colname)
    /\ IF Step1(page).raised THEN Raised ELSE Stored(Step1(page), "step2")
    /\ UNCHANGED <<ingress, now, chain, current_url, last_response, page, template, submit_url,
                   answer_payload, result, head_time, page_url, gotos, posts, fetched,
                   file2, file4>>

\* lines 92-170
DoStep2 ==
    /\ pc = "step2"
    /\ IF StepRuns(answer) /\ FileLink(page).found
       THEN \E f \in (IF FetchableLink(FileLink(page).link) THEN Files ELSE {FileError}) :
               /\ file2' = f
               /\ fetched' = fetched \cup {2}
               /\ IF Step2(FileLink(page).link, colname, f).raised
                  THEN Raised
                  ELSE Stored(Step2(FileLink(page).link, colname, f), "step3")
       ELSE /\ UNCHANGED <<file2, fetched, answer, method, file_error, res>>
            /\ pc' = "step3"
    /\ UNCHANGED <<ingress, now, chain, current_url, last_response, colname, page, template,
                   submit_url, answer_payload, result, head_time, page_url, gotos, posts,
                   file4>>

\* lines 173-179
DoStep3 ==
    /\ pc = "step3"
    /\ IF StepRuns(answer) THEN Stored(Step3(page), "step4")
       ELSE /\ UNCHANGED <<answer, method, file_error, res>>
            /\ pc' = "step4"
    /\ UNCHANGED <<ingress, now, chain, current_url, last_response, colname, page, template,
                   submit_url, answer_payload, result, head_time, page_url, gotos, posts,
                   fetched, file2, file4>>

\* lines 182-204
DoStep4 ==
    /\ pc = "step4"
    /\ IF StepRuns(answer) /\ Step4Raises(template)
       THEN Raised /\ UNCHANGED <<file4, fetched>>
       ELSE IF StepRuns(answer) /\ Step4Fetches(template)
       THEN \E f \in Files :
               /\ file4' = f
               /\ fetched' = fetched \cup {4}
               /\ Stored(Step4(template, f), "step5")
       ELSE IF StepRuns(answer)
       THEN Stored(Step4(template, NoFile), "step5") /\ UNCHANGED <<file4, fetched>>
       ELSE /\ UNCHANGED <<file4, fetched, answer, method, file_error, res>>
            /\ pc' = "step5"
    /\ UNCHANGED <<ingress, now, chain, current_url, last_response, colname, page, template,
                   submit_url, answer_payload, result, head_time, page_url, gotos, posts,
                   file2>>

\* lines 207-225
DoStep5 ==
    /\ pc = "step5"
    /\ IF StepRuns(answer) THEN Stored(Step5(page), "step6")
       ELSE /\ UNCHANGED <<answer, method, file_error, res>>
            /\ pc' = "step6"
    /\ UNCHANGED <<ingress, now, chain, current_url, last_response, colname, page, template,
                   submit_url, answer_payload, result, head_time, page_url, gotos, posts,
                   fetched, file2, file4>>

\* lines 221-225
DoStep6 ==
    /\ pc = "step6"
    /\ IF StepRuns(answer) THEN Stored(Step6(page), "build")
       ELSE /\ UNCHANGED <<answer, method, file_error, res>>
            /\ pc' = "build"
    /\ UNCHANGED <<ingress, now, chain, current_url, last_response, colname, page, template,
                   submit_url, answer_payload, result, head_time, page_url, gotos, posts,
                   fetched, file2, file4>>

\* lines 228-266: the payload, the submit target, and the return without one
Build ==
    /\ pc = "build"
    /\ answer_payload' =
          MergedPayload(template,
                        ComputedPayload(EMAIL, provided_secret, current_url, answer, method))
    /\ submit_url' = SubmitTarget(template, submit_url)
    /\ IF HasTarget(submit_url')
       THEN /\ pc' = "post"
            /\ UNCHANGED <<res, result>>
       ELSE /\ res' = ReleasedOnReturn(res)
            /\ result' = NoSubmitResult(current_url, answer_payload')
            /\ pc' = "done"
    /\ UNCHANGED <<ingress, now, chain, current_url, last_response, colname, page, template,
                   answer, method, file_error, head_time, page_url, gotos, posts, fetched,
                   file2, file4>>

\* lines 269-291: the POST returns a response
PostResponds ==
    /\ pc = "post"
    /\ submit_url.kind = "str"
    /\ posts' = posts + 1
    /\ \E r \in Responses :
          /\ last_response' = resp_json(r)
          /\ IF Truthy(next_url(resp_json(r)))
             THEN /\ current_url' = next_url(resp_json(r)).str
                  /\ pc' = "loop"
                  /\ UNCHANGED <<res, result>>
             ELSE /\ res' = ReleasedOnReturn(res)
                  /\ result' = SuccessResult(resp_json(r), answer_payload)
                  /\ pc' = "done"
                  /\ UNCHANGED current_url
    /\ UNCHANGED <<ingress, now, chain, colname, iteration, head_time, gotos>>

\* lines 270 and 292-297: the POST raises (a submit_url that is no string is
\* refused by httpx before anything is sent)
PostFails ==
    /\ pc = "post"
    /\ posts' = posts + 1
    /\ \E e \in PostErrors :
          /\ post_error' = e
          /\ result' = SubmitFailure(e, answer_payload)
    /\ res' = ReleasedOnReturn(res)
    /\ pc' = "done"
    /\ UNCHANGED <<ingress, now, start_url, provided_secret, deadline, current_url,
                   last_response, colname, iteration, head_time, gotos>>

Next ==
    \/ Tick
    \/ Acquire
    \/ LoopEnter
    \/ LoopExit
    \/ Navigate
    \/ NavigateFails
    \/ DoStep1
    \/ DoStep2
    \/ DoStep3
    \/ DoStep4
    \/ DoStep5
    \/ DoStep6
    \/ Build
    \/ PostResponds
    \/ PostFails

Spec == Init /\ [][Next]_vars

(***************************************************************************)
(* The service: one request to the endpoint, and the chain it starts as a   *)
(* task of the event loop.                                                  *)
(***************************************************************************)
InitService ==
    /\ pc = "idle"
    /\ now = 0
    /\ start_url = ""
    /\ provided_secret = ""
    /\ deadline = 0
    /\ res = Unacquired
    /\ current_url = ""
    /\ last_response = NoResponse
    /\ colname = NoColname
    /\ page = NoPage
    /\ template = NoJson
    /\ submit_url = None
    /\ answer = None
    /\ method = NoMethod
    /\ file_error = FALSE
    /\ answer_payload = EmptyObj
    /\ result = NoResult
    /\ head_time = 0
    /\ page_url = ""
    /\ gotos = 0
    /\ posts = 0
    /\ fetched = {}
    /\ file2 = NoFile
    /\ file4 = NoFile
    /\ post_error = ""
    /\ request = NoRequest
    /\ reply = NoReply
    /\ task = "none"

\* the handler that answers only once the chain it started is over
QuizEntry_Awaits ==
    /\ pc = "idle"
    /\ request = NoRequest
    /\ \E b \in Bodies :
          /\ request' = b
          /\ IF quiz_entry(b).starts
             THEN /\ reply' = NoReply
                  /\ task' = "running"
                  /\ pc' = "start"
                  /\ start_url' = b.obj["url"].str
                  /\ provided_secret' = b.obj["secret"].str
             ELSE /\ reply' = quiz_entry(b).reply
                  /\ UNCHANGED <<task, pc, start_url, provided_secret>>
    /\ UNCHANGED <<now, deadline, post_error, res, current_url, last_response, colname,
                   iteration, result, head_time, gotos, posts>>

\* quiz_entry, lines 19-46: the request is read and answered; create_task
\* (line 42) schedules run_worker, which runs once the handler has returned
QuizEntry ==
    /\ pc = "idle"
    /\ request = NoRequest
    /\ \E b \in Bodies :
          /\ request' = b
          /\ reply' = quiz_entry(b).reply
          /\ IF quiz_entry(b).starts
             THEN /\ task' = "running"
                  /\ pc' = "start"
                  /\ start_url' = b.obj["url"].str
                  /\ provided_secret' = b.obj["secret"].str
             ELSE UNCHANGED <<task, pc, start_url, provided_secret>>
    /\ UNCHANGED <<now, deadline, post_error, res, current_url, last_response, colname,
                   iteration, result, head_time, gotos, posts>>

\* run_worker, lines 48-55: the result is printed, an exception of the chain
\* is caught and printed
RunWorkerEnds ==
    /\ task = "running"
    /\ pc \in {"done", "raised"}
    /\ task' = "finished"
    /\ UNCHANGED <<request, reply, pc, now, chain, res, current_url, last_response,
                   colname, iteration, result, head_time, gotos, posts>>

NextService ==
    \/ QuizEntry
    \/ RunWorkerEnds
    \/ Next

ServiceSpec == InitService /\ [][NextService]_vars

(***************************************************************************)
(* The runs in which every awaited call comes back and the clock moves on   *)
(* in each iteration.  A failed file fetch and a failed POST are caught by  *)
(* the code (lines 169, 203, 292) and stay; the exception of page.goto is   *)
(* the one failure of a call that leaves the chain, and is left out.        *)
(***************************************************************************)
\* line 38 in such a run: the navigation has taken time when it returns
NavigateTimed ==
    /\ now > head_time
    /\ Navigate

NextLive ==
    \/ Tick
    \/ Acquire
    \/ LoopEnter
    \/ LoopExit
    \/ NavigateTimed
    \/ DoStep1
    \/ DoStep2
    \/ DoStep3
    \/ DoStep4
    \/ DoStep5
    \/ DoStep6
    \/ Build
    \/ PostResponds
    \/ PostFails

\* the chain is one coroutine: as long as it has a next step, it takes one
LiveSpec == Init /\ [][NextLive]_vars /\ WF_vars(NextLive)

(***************************************************************************)
(* Properties                                                               *)
(***************************************************************************)
Exited == pc \in {"done", "raised"}

\* the call is inside an iteration: between the navigation and the POST
InIteration == pc \in {"goto", "step1", "step2", "step3", "step4", "step5", "step6",
                       "build", "post"}

\* the cascade of this iteration is over and its page is still the current one
Resolved == pc \in {"build", "post"}

\* C1: whenever solve_quiz_chain exits, by a return or by an exception, the
\* page, the context, the browser and the HTTP client have been released.
C1_ReleasedOnEveryExit ==
    Exited => /\ res.page = "closed"
              /\ res.context = "closed"
              /\ res.browser = "closed"
              /\ res.http = "closed"

\* the continuation a response body carries: its "url" value when that is
\* non-empty, else its "next" value when that is non-empty
CarriesUrl(rj) == rj.is_dict /\ "url" \in DOMAIN rj.obj /\ Truthy(rj.obj["url"])

CarriesNext(rj) == rj.is_dict /\ "next" \in DOMAIN rj.obj /\ Truthy(rj.obj["next"])

Continuation(rj) ==
    IF CarriesUrl(rj) THEN rj.obj["url"].str ELSE rj.obj["next"].str

\* C2 (as amended): after a submission whose body carries a non-empty "url",
\* current_url is that value, else the non-empty "next" value; the call has
\* not returned, and the navigation that follows is given exactly that URL.
C2_ContinuationFollowed ==
    /\ (pc = "loop" /\ posts > 0) =>
          /\ CarriesUrl(last_response) \/ CarriesNext(last_response)
          /\ current_url = Continuation(last_response)
    /\ (InIteration /\ pc # "goto" /\ gotos > 1) => page_url = Continuation(last_response)
    /\ (pc = "done" /\ "final_response" \in DOMAIN result) =>
          ~(CarriesUrl(result.final_response) \/ CarriesNext(result.final_response))

C2_Witness ==
    /\ pc = "step1"
    /\ gotos = 2
    /\ CarriesUrl(last_response)
    /\ "next" \in DOMAIN last_response.obj
    /\ page_url = UrlPage2

\* C2 (as claimed): a body that carries a "url" field replaces current_url by
\* it, else a "next" field does, and the chain does not end at that point.
C2_AnyUrlFieldFollowed ==
    /\ (pc = "loop" /\ posts > 0 /\ last_response.is_dict) =>
          current_url = IF "url" \in DOMAIN last_response.obj
                        THEN last_response.obj["url"].str
                        ELSE last_response.obj["next"].str
    /\ (pc = "done" /\ "final_response" \in DOMAIN result
          /\ result.final_response.is_dict) =>
          /\ "url" \notin DOMAIN result.final_response.obj
          /\ "next" \notin DOMAIN result.final_response.obj

\* C3 (as amended): a response that carries no non-empty "url" or "next"
\* (any status, a body that is no JSON object, a body that is no JSON and is
\* wrapped as {status_code, text}) ends the chain with success, the response
\* and the submitted payload recorded; success comes about in no other way.
C3_SuccessIffNoContinuation ==
    /\ (last_response.present
          /\ ~(CarriesUrl(last_response) \/ CarriesNext(last_response))) =>
          /\ pc = "done"
          /\ result = [success |-> TRUE, final_response |-> last_response,
                       submitted |-> answer_payload]
    /\ (pc = "done" /\ result.success) =>
          /\ posts > 0
          /\ result.final_response = last_response
          /\ ~(CarriesUrl(last_response) \/ CarriesNext(last_response))
          /\ result.submitted = answer_payload

C3_Witness ==
    /\ pc = "done"
    /\ result.success
    /\ result.final_response = resp_json(RespRaw)
    /\ "status_code" \in DOMAIN result.final_response.obj

\* C3 (as claimed): success exactly when the body carries neither field.
C3_SuccessIffNoField ==
    (pc = "done" /\ result.success /\ result.final_response.is_dict) =>
        /\ "url" \notin DOMAIN result.final_response.obj
        /\ "next" \notin DOMAIN result.final_response.obj

\* C4: an iteration runs only from a loop-head test that sampled a time
\* before the deadline; a test made at or after the deadline ends the chain
\* with success=false and reason "timeout or loop ended".
C4_NoIterationPastDeadline ==
    /\ InIteration => head_time < deadline
    /\ (pc \notin {"start", "loop"} /\ head_time >= deadline) =>
          /\ pc = "done"
          /\ result.success = FALSE
          /\ result.reason = <<"timeout or loop ended">>
          /\ result.last_response = last_response

C4_Witness ==
    /\ pc = "done"
    /\ head_time = deadline
    /\ gotos = 1
    /\ posts = 1
    /\ result.reason = <<"timeout or loop ended">>

\* the page shows no URL and the template, if any, names no target
NoTargetOnPage ==
    /\ page.plain_urls = <<>>
    /\ ~(JsonTruthy(template)
           /\ \/ ("submit" \in DOMAIN template.obj /\ Truthy(template.obj["submit"]))
              \/ ("url" \in DOMAIN template.obj /\ Truthy(template.obj["url"])))

C6_PostFailureEndsChain ==
    /\ post_error # "" =>
          /\ pc = "done"
          /\ result = [success |-> FALSE,
                       reason |-> <<"failed to submit answer: ", post_error>>,
                       payload_tried |-> answer_payload]
          /\ posts = gotos
    /\ posts <= gotos

C6_Witness ==
    /\ pc = "done"
    /\ post_error \in PostErrors
    /\ posts = 2

\* the four kinds of terminal result
IsTerminalResult(r) ==
    \/ (r.success /\ DOMAIN r = {"success", "final_response", "submitted"})
    \/ (~r.success /\ r.reason[1] = "failed to submit answer: ")
    \/ (~r.success /\ r.reason = <<"No submit URL found on page">>)
    \/ (~r.success /\ r.reason = <<"timeout or loop ended">>)

\* C7: every run ends by returning one of the four terminal results; no
\* exception leaves solve_quiz_chain.
C7_OnlyTerminalResults ==
    Exited => (pc = "done" /\ IsTerminalResult(result))

\* the yield of step 2 and of step 4 of this iteration, from what was fetched
Yield2 ==
    IF FileLink(page).found THEN Step2(FileLink(page).link, colname, file2) ELSE Nothing

Yield4 == Step4(template, file4)

\* the first yield of the cascade order that holds a value, with the fetches
\* made up to that step
FirstYield ==
    LET f2 == IF FileLink(page).found THEN {2} ELSE {}
        f4 == IF Step4Fetches(template) THEN {4} ELSE {}
    IN  IF Step1(page).answer # None THEN <<Step1(page), {}>>
        ELSE IF Yield2.answer # None THEN <<Yield2, f2>>
        ELSE IF Step3(page).answer # None THEN <<Step3(page), f2>>
        ELSE IF Yield4.answer # None THEN <<Yield4, f2 \cup f4>>
        ELSE IF Step5(page).answer # None THEN <<Step5(page), f2 \cup f4>>
        ELSE IF Step6(page).answer # None THEN <<Step6(page), f2 \cup f4>>
        ELSE <<Nothing, f2 \cup f4>>

\* C8: the resolved answer and its method are those of the first step, in
\* the order column-sum, linked file, inline sum, template, blob, fallback,
\* that yields a value; no later step overwrites them or fetches.
C8_FirstYieldWins ==
    Resolved =>
        /\ answer = FirstYield[1].answer
        /\ (answer # None => method = FirstYield[1].method)
        /\ fetched = FirstYield[2]

C8_Witness ==
    /\ pc = "build"
    /\ Step1(page).answer # None
    /\ FileLink(page).found
    /\ Step3(page).answer # None
    /\ Step3(page).answer # Step1(page).answer
    /\ Step5(page).answer # None
    /\ fetched = {}

\* the three fields a payload always carries
CarriesIdentity(payload) ==
    /\ {"email", "secret", "url"} \subseteq DOMAIN payload
    /\ payload["email"] = Str(EMAIL)
    /\ payload["secret"] = Str(provided_secret)
    /\ payload["url"] = Str(page_url)

\* C9: every payload submitted or reported as attempted carries the
\* configured email, the caller's secret and the URL navigated in the same
\* iteration, whatever the answer and whatever the page template holds.
C9_PayloadIdentity ==
    /\ pc = "post" => CarriesIdentity(answer_payload)
    /\ (pc = "done" /\ "payload_tried" \in DOMAIN result) =>
          CarriesIdentity(result.payload_tried)
    /\ (pc = "done" /\ "submitted" \in DOMAIN result) =>
          CarriesIdentity(result.submitted)

C9_Witness ==
    /\ pc = "post"
    /\ IsFullTemplate(template)
    /\ template.obj["secret"] # Str(provided_secret)
    /\ template.obj["url"] # Str(page_url)
    /\ answer = None
    /\ provided_secret # SECRET
    /\ "extra" \in DOMAIN answer_payload

\* the page text holds "sum of the <name> column", the name bare or quoted
Instructs(text, name) ==
    \E i \in 1..Len(text) :
        \/ MatchesAt(text, i, SumOfThe \o <<" ">> \o name \o ColumnWord, TRUE)
        \/ \E q \in {"'", "\""} :
              MatchesAt(text, i, SumOfThe \o <<" ", q>> \o name \o <<q>> \o ColumnWord,
                        TRUE)

\* columns of the first table that the instruction names
InstructedColumns ==
    {k \in 1..Len(page.table.cols) :
        /\ page.table.cols[k].label.isstr
        /\ Instructs(page.plain, page.table.cols[k].label.s)}

\* C10: when the page text says "sum of the <name> column" and the first
\* table has a column of that name, the answer is the sum of that column
\* with method "html-table-sum".
C10_InstructedColumnSummed ==
    (Resolved /\ page.table.found /\ InstructedColumns # {}) =>
        /\ \E k \in InstructedColumns : answer = SumPresentColumn(page.table.cols[k].cells)
        /\ method = Method("html-table-sum", <<>>)

\* the columns of a frame whose every cell is a number or reads as one
NumericColumns(cols) == {k \in 1..Len(cols) : AsTypeFloatOk(cols[k].cells)}

\* step 2 fetched a csv file that parsed, with no column name known
CsvWithoutName ==
    /\ pc = "step3"
    /\ 2 \in fetched
    /\ Step1(page).answer = None
    /\ ~colname.set
    /\ FileLink(page).link.ends = "csv"
    /\ file2.ok
    /\ file2.frame.found

\* C11: when step 1 resolved nothing, no column name is known and the page
\* links a csv file, the answer is the sum of the first column of the file
\* whose cells are all numeric, columns with other cells being skipped, and
\* the method is "csv-first-numeric:" followed by that column.
C11_FirstNumericColumnSummed ==
    (CsvWithoutName /\ NumericColumns(file2.frame.cols) # {}) =>
        LET k == SetMin(NumericColumns(file2.frame.cols))
        IN  /\ answer = Num(SumAsFloat(file2.frame.cols[k].cells))
            /\ method = Method("csv-first-numeric:", file2.frame.cols[k].label.s)


\* the request read by quiz_entry lacks one of the three fields
LacksField ==
    \/ request.kind # "dict"
    \/ ~({"email", "secret", "url"} \subseteq DOMAIN request.obj)

\* C12: the endpoint answers 400 to a body that is no valid JSON or lacks
\* one of email, secret, url, 403 to a secret that is not the configured
\* one, and 200 {"status": "accepted"} otherwise; a chain is started in the
\* 200 case only.
C12_IngressStatus ==
    request # NoRequest =>
        /\ reply = IF ~request.is_json THEN Reply(400, "Invalid JSON")
                   ELSE IF LacksField THEN Reply(400, "Missing fields")
                   ELSE IF request.obj["secret"] # Str(SECRET)
                        THEN Reply(403, "Invalid secret")
                   ELSE Accepted
        /\ (task # "none") <=> (reply = Accepted)

\* C13: the 200 {"status": "accepted"} response is given when the task is
\* created, before the chain has made a step, and it stays what it is
\* whatever the chain does afterwards: succeed, fail, time out or raise.
C13_AcceptedBeforeChain ==
    /\ [](task # "none" => reply = Accepted)
    /\ [][reply # NoReply => reply' = reply]_vars

C13_Witness ==
    /\ reply = Accepted
    /\ task = "finished"
    /\ pc = "raised"


PageColname == ColnameAfter(page, NoColname)

\* C15: the answer resolved for a page comes from that page and the files it
\* links alone: the linked-file step treats a column name as known only
\* when the page itself names one, so its answer and method are the same
\* whatever pages the chain visited before.
C15_AnswerFromPageAlone ==
    (pc = "step3" /\ 2 \in fetched) =>
        LET y == Step2(FileLink(page).link, PageColname, file2)
        IN  /\ answer = y.answer
            /\ answer # None => method = y.method


\* the extraction of this iteration has run
Extracted == InIteration /\ pc # "goto"

\* C16: the JSON object found on the page is the payload template exactly
\* when it holds the keys email, secret and url; an object that lacks one is
\* never the template, neither for the merge nor for the submit target.
C16_TemplateIffAllKeys ==
    /\ Extracted =>
          (JsonTruthy(template) <=>
              {"email", "secret", "url"} \subseteq DOMAIN parsed_json(page).obj)
    /\ (pc = "post" /\ ~({"email", "secret", "url"} \subseteq DOMAIN parsed_json(page).obj)) =>
          /\ answer_payload = ComputedPayload(EMAIL, provided_secret, page_url, answer, method)
          /\ submit_url = LinkGuess(page)


\* the template of this iteration holds a non-empty value under the key
TemplateHas(k) ==
    JsonTruthy(template) /\ k \in DOMAIN template.obj /\ Truthy(template.obj[k])

AttributeGuess(p) ==
    LET c    == p.attr_urls
        hits == {k \in 1..Len(c) : MentionsSubmit(c[k])}
    IN  IF c = <<>> THEN None
        ELSE IF hits # {} THEN Str(c[SetMin(hits)])
        ELSE Str(c[1])

\* C18: the guess made from the links is taken from the URLs of the markup
\* attributes, the first that mentions submit or answer, else the first; a
\* page whose only submit URL stands in an attribute has a submit target.
C18_GuessFromAttributes ==
    /\ (pc \in {"step1", "step2", "step3", "step4", "step5", "step6", "build"}
          /\ ~IsFullTemplate(page.plain_json)
          /\ page.attr_urls # <<>>) =>
          submit_url = AttributeGuess(page)
    /\ (pc = "done" /\ "page_url" \in DOMAIN result) => page.attr_urls = <<>>


\* C19: with a template, the payload holds under each key the computed
\* value when that is not null, else the template's value when the template
\* has the key, and nothing else: template keys the computed payload does not
\* set are carried through, and a null computed field erases nothing.
C19_MergeRule ==
    (pc \in {"post", "done"} /\ gotos > 0 /\ JsonTruthy(template)) =>
        LET c == ComputedPayload(EMAIL, provided_secret, page_url, answer, method)
            t == template.obj
        IN  /\ DOMAIN answer_payload \subseteq DOMAIN c \cup DOMAIN t
            /\ \A k \in DOMAIN c \cup DOMAIN t :
                  IF k \in DOMAIN c /\ c[k] # None
                  THEN k \in DOMAIN answer_payload /\ answer_payload[k] = c[k]
                  ELSE IF k \in DOMAIN t
                  THEN k \in DOMAIN answer_payload /\ answer_payload[k] = t[k]
                  ELSE k \notin DOMAIN answer_payload

C19_Witness ==
    /\ pc = "post"
    /\ JsonTruthy(template)
    /\ answer = None
    /\ "answer" \in DOMAIN template.obj
    /\ template.obj["answer"] # None
    /\ answer_payload["answer"] = template.obj["answer"]
    /\ answer_payload["extra"] = Str("keep")
    /\ "note" \in DOMAIN answer_payload
    /\ "note" \notin DOMAIN template.obj


\* a fetch of this iteration failed
FetchFailed == (2 \in fetched /\ ~file2.ok) \/ (4 \in fetched /\ ~file4.ok)

\* the step whose fetch fails hands on to the next step, and after it the
\* cascade is left by an exception only at line 189
FailedFetchHandsOn ==
    /\ (pc = "step2" /\ 2 \in fetched' /\ ~file2'.ok) =>
          (pc' = "step3" /\ answer' = None /\ file_error'
             /\ result' = result /\ res' = res)
    /\ (pc = "step4" /\ 4 \in fetched' /\ ~file4'.ok) =>
          (pc' = "step5" /\ answer' = None /\ result' = result /\ res' = res)
    /\ (FetchFailed /\ pc \in {"step3", "step4", "step5", "step6"} /\ pc' = "raised") =>
          (pc = "step4" /\ Step4Raises(template))

LoopStops == <>Exited

\* C21: every invocation of solve_quiz_chain eventually returns, when each
\* navigation, fetch and POST comes back and time advances in each iteration,
\* whatever the submission responses carry.
C21_EventuallyReturns == <>(pc = "done")

====
